---- MODULE Spec2Model ----
(***************************************************************************)
(* A model of @mbw/sb3: the block factory (block), the chain builder       *)
(* (Script), Target and Project.                                           *)
(*                                                                         *)
(* JavaScript objects are modelled with a heap: a node table maps a key    *)
(* (an identifier) to the ADDRESS of a node object, because the code       *)
(* copies tables shallowly ({...a, ...b}) and so shares node objects       *)
(* between a chain, the fragments built from it and the targets it was     *)
(* added to.                                                               *)
(***************************************************************************)
EXTENDS Integers, Sequences, FiniteSets, TLC

(***************************************************************************)
(* Bounds of the model.                                                    *)
(***************************************************************************)
MaxOps == 6         \* operations of a run of Spec
MaxBlocks == 3      \* calls of block() in a run of Spec
MaxCalls == 2       \* calls of block() in a run of SpecBlock
MaxPushes == 2      \* calls of push() per script
MaxAddScripts == 1  \* calls of addScript() per target

Scripts == {"s1", "s2"}          \* the Script objects of a run
InputNames == <<"A", "B">>       \* the input names a block() call may use
Opcodes == {"motion_movesteps"}
FieldChoices == {<<>>, [EFFECT |-> "COLOR"]}   \* the `fields` option of block()

null == 0
Truthy(x) == x # null            \* JS truthiness of a `string | null` holding an id

MaxCostumes == 2    \* costumes pushed in a run of Spec
MaxProjectOps == 6  \* changes of targets and project in a run of SpecProject
MaxAssets == 3      \* costumes pushed in a run of SpecProject
MaxSounds == 1      \* sounds pushed in a run of SpecProject
MaxAdds == 3        \* calls of addTarget()

MaxTargetCostumes == 2   \* costumes pushed in a run of SpecTarget
MaxTargetAdds == 2       \* calls of addTarget() in a run of SpecTarget
MaxIds == 4              \* identifiers handed out in a run of SpecIds
MaxIdAssets == 2         \* costumes and sounds pushed in a run of SpecIds
MaxIdAdds == 2           \* calls of addTarget() in a run of SpecIds
MaxTwoAssets == 3        \* costumes and sounds pushed in a run of SpecTwo
MaxTwoAdds == 2          \* calls of addTarget() on the first project in SpecTwo
MaxTwoSprites == 1       \* sprites added to the second project in SpecTwo
MaxZipAssets == 3        \* costumes pushed in a run of SpecZip
MaxZipAdds == 3          \* calls of addTarget() in a run of SpecZip
MaxAllBlocks == 2        \* calls of block() in a run of SpecAll
MaxAllPushes == 2        \* calls of push() in a run of SpecAll
MaxAllAssets == 2        \* costumes and sounds pushed in a run of SpecAll
MaxAllAdds == 2          \* calls of addTarget() in a run of SpecAll

Targets == {"stage1", "stage2", "sprite1", "sprite2"}   \* the Target objects
TargetPool == {"stage1", "sprite1", "sprite2"}   \* the targets of SpecTarget
TwoTargets == {"stage1", "stage2", "sprite1"}   \* the targets of SpecTwo
ZipTargets == {"stage1", "sprite1"}   \* the targets of SpecZip
IdTargets == {"stage1", "sprite1"}   \* the targets of SpecIds
AllPool == {"stage1", "sprite1"}   \* the targets of SpecAll
OrderTargets == {"stage1", "sprite1"}   \* the targets whose layerOrder is set
Names == {"Dog", ""}             \* the arguments of setName
LayerOrders == {0, 7}            \* the values layerOrder is set to
ScriptTargets == {"sprite1"}     \* the targets scripts are added to in Spec
Files == {"f1", "f2"}            \* byte-stream handles

VARIABLES
  idCount,   \* number of identifiers generateID has handed out
  ids,       \* the module-level Map of idFor: file -> id
  heap,      \* address -> node object (IndividualBlock)
  frags,     \* the Block values returned by block(), in call order
  scripts,   \* Script objects: _blocks, _first, _last, _shadow, _topLevel
  pushed,    \* history: per script, the bases of the fragments pushed
  tscripts,  \* Target._scripts per target
  nAdd,      \* history: addScript calls per target
  tname,     \* Target._name per target
  costumes,  \* Target.costumes per target
  sounds,    \* Target.sounds per target
  layerOrder,\* Target.layerOrder per target
  stage,     \* Project.stage
  targets,   \* Project.targets
  added,     \* history: the arguments of the addTarget calls, in order
  ret,       \* history: the last call of block, toJSON, getAssets or getFiles, and
             \* what it returned or threw
  returned,  \* history: per handle, the ids that calls of idFor returned
  projB,     \* a second Project: its stage and its targets
  zip        \* the call of Project.zip: its position and the packager's state

idVars == <<idCount, ids>>
graphVars == <<heap, frags, scripts, pushed>>
targetVars == <<tname, costumes, sounds, layerOrder>>
projectVars == <<stage, targets, added>>
otherVars == <<returned, projB, zip>>
vars == <<idVars, graphVars, tscripts, nAdd, targetVars, projectVars, ret, otherVars>>

(* ret while nothing has been returned or thrown since the last change of a
   script, a target or the project *)
NoRet == [op |-> "none", thrown |-> "none", value |-> <<>>]


(***************************************************************************)
(* Object spread of two tables: {...a, ...b}.                              *)
(***************************************************************************)
Merge(a, b) ==
  [k \in (DOMAIN a) \cup (DOMAIN b) |-> IF k \in DOMAIN b THEN b[k] ELSE a[k]]

EmptyTable == [k \in {} |-> <<>>]

(***************************************************************************)
(* generateID: 32 random hexadecimal digits.  The model hands out the      *)
(* identifiers 1, 2, 3, ... : a token of 128 random bits is taken to be    *)
(* new.                                                                    *)
(***************************************************************************)
(* a generator whose digit index is always 0: the token of 32 zeros *)
generateID_Const(n) == 1

generateID(n) == n + 1

(***************************************************************************)
(* Addresses.  The base node object of the fragment with base b lives at   *)
(* <<"frag", b, 0>>; the copy of key k made by the n-th push on script s   *)
(* lives at <<s, k, n>>.                                                   *)
(***************************************************************************)
FragAddr(b) == <<"frag", b, 0>>

(* a push that stores the base node of the fragment itself, uncopied *)
CopyAddr_BaseShared(s, k, n) == FragAddr(k)

CopyAddr(s, k, n) == <<s, k, n>>

(* Objects no table refers to any more are dropped from the heap. *)
Roots(fr, sc, ts) ==
  UNION {{fr[i].blocks[k] : k \in DOMAIN fr[i].blocks} : i \in DOMAIN fr}
  \cup UNION {{sc[s].blocks[k] : k \in DOMAIN sc[s].blocks} : s \in DOMAIN sc}
  \cup UNION {{ts[t][k] : k \in DOMAIN ts[t]} : t \in DOMAIN ts}

Collect(h, fr, sc, ts) ==
  [a \in (DOMAIN h) \cap Roots(fr, sc, ts) |-> h[a]]

(***************************************************************************)
(* block(): the inputs option.  inputs[name] is absent, or a string value  *)
(* (with or without a `type` key), or a Script (with or without a          *)
(* fallback).                                                              *)
(***************************************************************************)
Literal == [type |-> 4, value |-> "10"]
Fallback == [type |-> 6, value |-> "1"]

InputChoices ==
  [kind : {"absent"}, hasType : {FALSE}, script : {"s1"}, hasFallback : {FALSE}]
  \cup [kind : {"string"}, hasType : BOOLEAN, script : {"s1"}, hasFallback : {FALSE}]
  \cup [kind : {"script"}, hasType : {FALSE}, script : Scripts, hasFallback : BOOLEAN]

(* block.blocks[baseOpcode].inputs[name] = enc *)
SetInput(h, addr, name, enc) ==
  [h EXCEPT ![addr].inputs = Merge(@, name :> enc)]

(* a block() that records no fallback *)
ScriptSlot_NoFallback(input, first) == <<2, first>>

(* the slot of an input whose value is a non-empty Script *)
ScriptSlot(input, first) ==
  IF input.hasFallback
    THEN <<3, first, <<Fallback.type, Fallback.value>>>>
    ELSE <<2, first>>

(* the slot of an input whose value is a string *)
StringSlot(input) == <<1, <<Literal.type, Literal.value>>>>

(* a block() that takes a string without asking for its type *)
MissingType_Never(input) == FALSE

(* whether a string input lacks its type: if (!("type" in input)) *)
MissingType(input) == ~input.hasType

(* a block() that does not skip an empty Script *)
SkipsScript_Never(script) == FALSE

(* whether block() skips the Script given as an input: if (!input.value.first) *)
SkipsScript(script) == ~Truthy(script.first)

(***************************************************************************)
(* Object.entries(inputs).forEach(...) of block(), from entry i on.        *)
(* blocks is block.blocks, h the heap; sc the Script objects.              *)
(***************************************************************************)
RECURSIVE BlockInputs(_, _, _, _, _, _)
BlockInputs(ins, i, baseOpcode, blocks, h, sc) ==
  IF i > Len(InputNames)
    THEN [thrown |-> FALSE, blocks |-> blocks, heap |-> h]
    ELSE
      LET name == InputNames[i]
          input == ins[i]
      IN  IF input.kind = "absent"
            THEN BlockInputs(ins, i + 1, baseOpcode, blocks, h, sc)
          ELSE IF input.kind = "string"
            THEN IF MissingType(input)
                   THEN [thrown |-> TRUE, blocks |-> blocks, heap |-> h]
                   ELSE BlockInputs(ins, i + 1, baseOpcode, blocks,
                          SetInput(h, blocks[baseOpcode], name, StringSlot(input)), sc)
          ELSE IF SkipsScript(sc[input.script])
            THEN BlockInputs(ins, i + 1, baseOpcode, blocks, h, sc)
          ELSE
            LET merged == Merge(blocks, sc[input.script].blocks)
            IN  BlockInputs(ins, i + 1, baseOpcode, merged,
                  SetInput(h, merged[baseOpcode], name,
                           ScriptSlot(input, sc[input.script].first)), sc)

(* the base node block() starts from *)
BaseNode(opcode, fields) ==
  [opcode |-> opcode,
   inputs |-> EmptyTable,
   fields |-> [n \in DOMAIN fields |-> <<fields[n], null>>],
   parent |-> null,
   next |-> null,
   x |-> 0,
   y |-> 0,
   shadow |-> FALSE,
   topLevel |-> FALSE]

(* block(opcode, {inputs, fields}): the value returned, or thrown *)
BlockResult(opcode, fields, ins, baseOpcode, h, sc) ==
  BlockInputs(ins, 1, baseOpcode,
              baseOpcode :> FragAddr(baseOpcode),
              Merge(h, FragAddr(baseOpcode) :> BaseNode(opcode, fields)),
              sc)

block(opcode, fields, ins) ==
  /\ LET baseOpcode == generateID(idCount)
         r == BlockResult(opcode, fields, ins, baseOpcode, heap, scripts)
     IN  /\ idCount' = baseOpcode
         /\ frags' = IF r.thrown
                       THEN frags
                       ELSE Append(frags, [blocks |-> r.blocks, base |-> baseOpcode])
         /\ heap' = IF r.thrown
                      THEN heap
                      ELSE Collect(r.heap, frags', scripts, tscripts)
         /\ ret' = [op |-> "block",
                    thrown |-> IF r.thrown THEN "InvalidInput" ELSE "none",
                    value |-> [opcode |-> opcode, fields |-> fields, inputs |-> ins]]
  /\ ids' = ids
  /\ UNCHANGED <<scripts, pushed, tscripts, nAdd, targetVars, projectVars, otherVars>>

(***************************************************************************)
(* Script.push                                                             *)
(***************************************************************************)
(* a push that marks only the base node of the fragment as shadow *)
CopyNode_ShadowBaseOnly(individualBlock, shadow, isBase, last) ==
  [individualBlock EXCEPT
     !.shadow = IF shadow /\ isBase THEN TRUE ELSE @,
     !.parent = IF isBase THEN last ELSE @]

(* {...individualBlock, ...(shadow ? {shadow: true} : {}),
    ...(opcode === block.base ? {parent: this._last} : {})} *)
CopyNode(individualBlock, shadow, isBase, last) ==
  [individualBlock EXCEPT
     !.shadow = IF shadow THEN TRUE ELSE @,
     !.parent = IF isBase THEN last ELSE @]

(* if (this._last) this._blocks[this._last].next = block.base *)
LinkNext(h, blocks, last, base) ==
  IF Truthy(last) THEN [h EXCEPT ![blocks[last]].next = base] ELSE h

(* if (!this.first) this._blocks[block.base].topLevel = this._topLevel *)
MarkTopLevel(h, blocks, first, base, topLevel) ==
  IF ~Truthy(first) THEN [h EXCEPT ![blocks[base]].topLevel = topLevel] ELSE h

(* a push that sets _first every time *)
NewFirst_Always(first, base) == base

(* if (!this.first) this._first = block.base *)
NewFirst(first, base) == IF ~Truthy(first) THEN base ELSE first

push(s, i) ==
  /\ LET blk == frags[i]
         this == scripts[s]
         n == Len(pushed[s]) + 1
         keys == DOMAIN blk.blocks
         copies == [k \in keys |-> CopyAddr(s, k, n)]
         h1 == [a \in (DOMAIN heap) \cup {copies[k] : k \in keys} |->
                  IF a \in DOMAIN heap
                    THEN heap[a]
                    ELSE CopyNode(heap[blk.blocks[a[2]]], this.shadow,
                                  a[2] = blk.base, this.last)]
         blocks1 == Merge(this.blocks, copies)
         h2 == LinkNext(h1, blocks1, this.last, blk.base)
         h3 == MarkTopLevel(h2, blocks1, this.first, blk.base, this.topLevel)
     IN  /\ scripts' = [scripts EXCEPT ![s] =
                          [@ EXCEPT !.blocks = blocks1,
                                    !.first = NewFirst(this.first, blk.base),
                                    !.last = blk.base]]
         /\ pushed' = [pushed EXCEPT ![s] = Append(@, blk.base)]
         /\ heap' = Collect(h3, frags, scripts', tscripts)
  /\ ret' = NoRet
  /\ UNCHANGED <<idVars, frags, tscripts, nAdd, targetVars, projectVars, otherVars>>

(***************************************************************************)
(* Target.addScript                                                        *)
(***************************************************************************)
addScript(t, s) ==
  /\ tscripts' = [tscripts EXCEPT ![t] = Merge(@, scripts[s].blocks)]
  /\ nAdd' = [nAdd EXCEPT ![t] = @ + 1]
  /\ ret' = NoRet
  /\ UNCHANGED <<idVars, graphVars, targetVars, projectVars, otherVars>>

(***************************************************************************)
(* Target                                                                  *)
(***************************************************************************)
undefined == <<>>                \* a name is undefined or <<the string>>

(* new Target(name?) for every Target of the run *)
NewName(t) ==
  IF t \in {"stage1", "stage2"} THEN undefined
  ELSE IF t = "sprite1" THEN <<"Cat">>
  ELSE <<"">>

Costumes ==
  {[name |-> "c1", type |-> "svg", file |-> "f1", rotationCenter |-> <<>>],
   [name |-> "c2", type |-> "png", file |-> "f2", rotationCenter |-> <<3, 4>>]}

Sounds == {[name |-> "pop", type |-> "wav", file |-> "f1"]}

(* an isStage that takes every falsy name for the stage *)
isStage_Falsy(name) == name = undefined \/ name[1] = ""

(* get isStage *)
isStage(name) == name = undefined

(* target.costumes.push(costume) *)
pushCostume(t, costume) ==
  /\ costumes' = [costumes EXCEPT ![t] = Append(@, costume)]
  /\ ret' = NoRet
  /\ UNCHANGED <<idVars, graphVars, tscripts, nAdd, tname, sounds, layerOrder,
                 projectVars, otherVars>>

(* target.sounds.push(sound) *)
pushSound(t, sound) ==
  /\ sounds' = [sounds EXCEPT ![t] = Append(@, sound)]
  /\ ret' = NoRet
  /\ UNCHANGED <<idVars, graphVars, tscripts, nAdd, tname, costumes, layerOrder,
                 projectVars, otherVars>>

(***************************************************************************)
(* idFor(file): the cached id of the handle, or a new one that is cached.  *)
(* cache is the Map, n the number of identifiers handed out.               *)
(***************************************************************************)
(* an idFor that never looks the handle up *)
idFor_AlwaysNew(file, cache, n) ==
  LET id == generateID(n)
  IN  [id |-> id, cache |-> Merge(cache, file :> id), n |-> id]

(* an idFor that does not keep the id it made *)
idFor_NoStore(file, cache, n) ==
  IF file \in DOMAIN cache /\ Truthy(cache[file])
    THEN [id |-> cache[file], cache |-> cache, n |-> n]
    ELSE LET id == generateID(n)
         IN  [id |-> id, cache |-> cache, n |-> id]

idFor(file, cache, n) ==
  IF file \in DOMAIN cache /\ Truthy(cache[file])
    THEN [id |-> cache[file], cache |-> cache, n |-> n]
    ELSE LET id == generateID(n)
         IN  [id |-> id, cache |-> Merge(cache, file :> id), n |-> id]

bitmapResolution(type) == IF type = "svg" THEN 1 ELSE 2

CostumeJSON(costume, id) ==
  [name |-> costume.name,
   bitmapResolution |-> bitmapResolution(costume.type),
   dataFormat |-> costume.type,
   assetId |-> id,
   md5ext |-> <<id, costume.type>>,
   rotationCenterX |-> IF costume.rotationCenter = <<>> THEN 0 ELSE costume.rotationCenter[1],
   rotationCenterY |-> IF costume.rotationCenter = <<>> THEN 0 ELSE costume.rotationCenter[2]]

SoundJSON(sound, id) ==
  [name |-> sound.name,
   dataFormat |-> sound.type,
   assetId |-> id,
   md5ext |-> <<id, sound.type>>,
   format |-> "",
   rate |-> 0,
   sampleCount |-> 0]

(* this.costumes.map(...) and this.sounds.map(...): from element i on *)
RECURSIVE MapAssets(_, _, _, _, _, _)
MapAssets(assets, i, isCostume, acc, cache, n) ==
  IF i > Len(assets)
    THEN [list |-> acc, cache |-> cache, n |-> n]
    ELSE LET r == idFor(assets[i].file, cache, n)
             json == IF isCostume THEN CostumeJSON(assets[i], r.id)
                                  ELSE SoundJSON(assets[i], r.id)
         IN  MapAssets(assets, i + 1, isCostume, Append(acc, json), r.cache, r.n)

(* the Target object t *)
TargetObj(t) ==
  [name |-> tname[t], layerOrder |-> layerOrder[t], costumes |-> costumes[t],
   sounds |-> sounds[t], scripts |-> tscripts[t]]

(* blocks: this._scripts, as it is serialized: every key with its node *)
BlocksJSON(table, h) == [k \in DOMAIN table |-> h[table[k]]]

(* a toJSON that serializes a target without costumes *)
NoCostumes_Never(list) == FALSE

(* if (this.costumes.length === 0) throw *)
NoCostumes(list) == Len(list) = 0

(* a toJSON that emits the layerOrder of a stage as it is *)
LayerOrderJSON_AsSet(stg, order) == order

(* layerOrder: this.isStage ? 0 : this.layerOrder *)
LayerOrderJSON(stg, order) == IF stg THEN 0 ELSE order

(***************************************************************************)
(* Target.toJSON                                                           *)
(***************************************************************************)
Target_toJSON(this, h, cache, n) ==
  IF NoCostumes(this.costumes)
    THEN [thrown |-> "MissingCostume", value |-> <<>>, cache |-> cache, n |-> n]
    ELSE
      LET cs == MapAssets(this.costumes, 1, TRUE, <<>>, cache, n)
          ss == MapAssets(this.sounds, 1, FALSE, <<>>, cs.cache, cs.n)
      IN  [thrown |-> "none",
           value |->
             [isStage |-> isStage(this.name),
              x |-> 0,
              y |-> 0,
              name |-> IF this.name = undefined THEN "Stage" ELSE this.name[1],
              size |-> 100,
              direction |-> 90,
              draggable |-> FALSE,
              rotationStyle |-> "all around",
              layerOrder |-> LayerOrderJSON(isStage(this.name), this.layerOrder),
              visible |-> TRUE,
              variables |-> <<>>,
              lists |-> <<>>,
              broadcasts |-> <<>>,
              blocks |-> BlocksJSON(this.scripts, h),
              comments |-> <<>>,
              costumes |-> cs.list,
              sounds |-> ss.list],
           cache |-> ss.cache,
           n |-> ss.n]

(***************************************************************************)
(* Project                                                                 *)
(***************************************************************************)
(* an addTarget that keeps the stage it has *)
NewStage_KeepFirst(stg, t, name) ==
  IF isStage(name) /\ stg = "null" THEN t ELSE stg

(* an addTarget that records no stage *)
NewStage_Dropped(stg, t, name) == stg

(* the target handed to addTarget becomes the stage, or joins the sprites *)
NewStage(stg, t, name) == IF isStage(name) THEN t ELSE stg
NewTargets(tgts, t, name) == IF isStage(name) THEN tgts ELSE Append(tgts, t)

addTarget(t) ==
  /\ stage' = NewStage(stage, t, tname[t])
  /\ targets' = NewTargets(targets, t, tname[t])
  /\ added' = Append(added, t)
  /\ ret' = NoRet
  /\ UNCHANGED <<idVars, graphVars, tscripts, nAdd, targetVars, otherVars>>

(* a toJSON that leaves out the targets whose toJSON throws *)
RECURSIVE MapTargets_SkipFailed(_, _, _, _, _)
MapTargets_SkipFailed(list, i, acc, cache, n) ==
  IF i > Len(list)
    THEN [thrown |-> "none", value |-> acc, cache |-> cache, n |-> n]
    ELSE LET r == Target_toJSON(TargetObj(list[i]), heap, cache, n)
         IN  IF r.thrown # "none"
               THEN MapTargets_SkipFailed(list, i + 1, acc, r.cache, r.n)
               ELSE MapTargets_SkipFailed(list, i + 1, Append(acc, r.value), r.cache, r.n)

(* [this.stage.toJSON(), ...this.targets.map(t => t.toJSON())]: from i on *)
RECURSIVE MapTargets(_, _, _, _, _)
MapTargets(list, i, acc, cache, n) ==
  IF i > Len(list)
    THEN [thrown |-> "none", value |-> acc, cache |-> cache, n |-> n]
    ELSE LET r == Target_toJSON(TargetObj(list[i]), heap, cache, n)
         IN  IF r.thrown # "none"
               THEN r
               ELSE MapTargets(list, i + 1, Append(acc, r.value), r.cache, r.n)

(* whether the project has no stage: !this.stage *)
NoStage(stg) == stg = "null"

(* the targets a serialization walks over: [this.stage, ...this.targets] *)
AllTargets(stg, tgts) == <<stg>> \o tgts

Project_toJSON(stg, tgts, cache, n) ==
  IF NoStage(stg)
    THEN [thrown |-> "MissingStage", value |-> <<>>, cache |-> cache, n |-> n]
    ELSE LET r == MapTargets(AllTargets(stg, tgts), 1, <<>>, cache, n)
         IN  IF r.thrown # "none"
               THEN r
               ELSE [thrown |-> "none",
                     value |-> [targets |-> r.value,
                                monitors |-> <<>>,
                                extensions |-> <<>>,
                                extensionURLs |-> <<>>,
                                meta |-> [semver |-> "3.0.0", vm |-> "2.3.0",
                                          agent |-> "Created with https://jsr.io/@mbw/sb3"]],
                     cache |-> r.cache,
                     n |-> r.n]

(* Object.fromEntries over [...target.costumes, ...target.sounds] of every
   target: entry i of the flattened list on *)
RECURSIVE AssetEntries(_, _, _, _, _)
AssetEntries(assets, i, acc, cache, n) ==
  IF i > Len(assets)
    THEN [thrown |-> "none", value |-> acc, cache |-> cache, n |-> n]
    ELSE LET r == idFor(assets[i].file, cache, n)
         IN  AssetEntries(assets, i + 1,
                          Merge(acc, <<r.id, assets[i].type>> :> assets[i].file),
                          r.cache, r.n)

RECURSIVE FlatAssets(_, _)
FlatAssets(list, i) ==
  IF i > Len(list) THEN <<>>
  ELSE (costumes[list[i]] \o sounds[list[i]]) \o FlatAssets(list, i + 1)

getAssets(stg, tgts, cache, n) ==
  IF NoStage(stg)
    THEN [thrown |-> "MissingStage", value |-> <<>>, cache |-> cache, n |-> n]
    ELSE AssetEntries(FlatAssets(AllTargets(stg, tgts), 1), 1, EmptyTable, cache, n)

(* File names: `${id}.${type}` is <<id, type>>; "project.json" has no id. *)
ProjectJson == <<null, "project.json">>

(* textEncoder.encode(JSON.stringify(this)) *)
Encode(json) == [utf8 |-> [text |-> json]]

(* a getFiles that returns project.json alone *)
FilesJson_NoAssets(a, j) ==
  IF j.thrown # "none" THEN j
  ELSE [thrown |-> "none",
        value |-> ProjectJson :> Encode(j.value),
        cache |-> j.cache,
        n |-> j.n]

(* {...assets, "project.json": the stream of JSON.stringify(this)}, where a is
   what getAssets gave and j what toJSON gave *)
FilesJson(a, j) ==
  IF j.thrown # "none" THEN j
  ELSE [thrown |-> "none",
        value |-> Merge(a.value, ProjectJson :> Encode(j.value)),
        cache |-> j.cache,
        n |-> j.n]

(* the object literal of getFiles: ...this.getAssets() comes first, the
   stream, whose start() serializes the project, second *)
FilesWith(a, stg, tgts) ==
  IF a.thrown # "none" THEN a
  ELSE FilesJson(a, Project_toJSON(stg, tgts, a.cache, a.n))

getFiles(stg, tgts, cache, n) ==
  IF NoStage(stg)
    THEN [thrown |-> "MissingStage", value |-> <<>>, cache |-> cache, n |-> n]
    ELSE FilesWith(getAssets(stg, tgts, cache, n), stg, tgts)

(* a call of one of the three, recorded in ret *)
Call(op, result) ==
  /\ \E r \in {result} :
       /\ ret' = [op |-> op, thrown |-> r.thrown, value |-> r.value]
       /\ ids' = r.cache
       /\ idCount' = r.n
  /\ UNCHANGED <<graphVars, tscripts, nAdd, targetVars, projectVars, otherVars>>

call_toJSON == Call("toJSON", Project_toJSON(stage, targets, ids, idCount))
call_getAssets == Call("getAssets", getAssets(stage, targets, ids, idCount))
call_getFiles == Call("getFiles", getFiles(stage, targets, ids, idCount))

(***************************************************************************)
(* Target.setName, an assignment to Target.layerOrder, and a call of       *)
(* Target.toJSON by the caller.                                            *)
(***************************************************************************)
(* JS truthiness of `string | undefined`: undefined and "" are falsy *)
NameTruthy(name) == name # undefined /\ name[1] # ""

(* setName(name): if (!this._name) throw; this._name = name.  ret keeps the
   target, the argument and the name the target had before the call. *)
setName(t, name) ==
  /\ tname' = IF NameTruthy(tname[t]) THEN [tname EXCEPT ![t] = <<name>>] ELSE tname
  /\ ret' = [op |-> "setName",
             thrown |-> IF NameTruthy(tname[t]) THEN "none" ELSE "InvalidMutation",
             value |-> [target |-> t, name |-> name, before |-> tname[t]]]
  /\ UNCHANGED <<idVars, graphVars, tscripts, nAdd, costumes, sounds, layerOrder,
                 projectVars, otherVars>>

(* target.layerOrder = order *)
setLayerOrder(t, order) ==
  /\ layerOrder' = [layerOrder EXCEPT ![t] = order]
  /\ ret' = NoRet
  /\ UNCHANGED <<idVars, graphVars, tscripts, nAdd, tname, costumes, sounds,
                 projectVars, otherVars>>

(* target.toJSON() *)
call_Target_toJSON(t) ==
  LET r == Target_toJSON(TargetObj(t), heap, ids, idCount)
  IN  /\ ret' = [op |-> "Target.toJSON", thrown |-> r.thrown, value |-> r.value,
                 target |-> t]
      /\ ids' = r.cache
      /\ idCount' = r.n
      /\ UNCHANGED <<graphVars, tscripts, nAdd, targetVars, projectVars, otherVars>>

(* idFor(file), called by the caller.  ret keeps the handle, the id and the
   ids returned for the handle before this call. *)
call_idFor(file) ==
  LET r == idFor(file, ids, idCount)
  IN  /\ ids' = r.cache
      /\ idCount' = r.n
      /\ returned' = [returned EXCEPT ![file] = @ \cup {r.id}]
      /\ ret' = [op |-> "idFor", thrown |-> "none",
                 value |-> [file |-> file, id |-> r.id, before |-> returned[file]]]
      /\ UNCHANGED <<graphVars, tscripts, nAdd, targetVars, projectVars, projB, zip>>

(* new Project(): targets = [], stage = null *)
NewProject == [stage |-> "null", targets |-> <<>>]

(***************************************************************************)
(* Project.zip.  zip.pc is the position of the async function:             *)
(*   "idle"         not called                                             *)
(*   "adding"       awaiting Promise.all of the zipWriter.add calls        *)
(*   "closing"      awaiting zipWriter.close()                             *)
(*   "terminating"  awaiting terminateWorkers()                            *)
(*   "getting"      awaiting blobWriter.getData()                          *)
(*   "returned"     resolved with the stream of the archive                *)
(*   "rejected"     rejected with zip.error                                *)
(* The packager (zip.js) is not part of the repository: each of its        *)
(* promises settles in a step of its own, fulfilled or rejected.           *)
(***************************************************************************)
(* zip has not been called *)
NoZip ==
  [pc |-> "idle",
   files |-> EmptyTable,     \* what getFiles returned: name -> stream
   names0 |-> {},            \* history: the names getFiles returned
   json0 |-> <<>>,           \* history: the bytes of JSON.stringify(this) at the call
   pending |-> {},           \* adds issued and not settled
   done |-> {},              \* adds fulfilled
   failed |-> {},            \* adds rejected
   archive |-> EmptyTable,   \* what the packager has written: name -> content
   failures |-> <<>>,        \* history: the steps that failed, in order
   error |-> "none",         \* what zip rejected with
   closeIssued |-> FALSE, closeDone |-> FALSE,
   dataIssued |-> FALSE, dataDone |-> FALSE]

zipFrame == <<graphVars, tscripts, nAdd, targetVars, projectVars, ret, returned, projB>>

(* const files = this.getFiles(); Object.entries(files).map(add): getFiles and
   the call of every add run without a pause; a throw of getFiles rejects. *)
zip_start ==
  /\ zip.pc = "idle"
  /\ \E r \in {getFiles(stage, targets, ids, idCount)} :
       /\ ids' = r.cache
       /\ idCount' = r.n
       /\ zip' = IF r.thrown # "none"
                   THEN [zip EXCEPT !.pc = "rejected", !.error = r.thrown,
                                    !.failures = <<r.thrown>>]
                   ELSE [zip EXCEPT !.pc = "adding",
                                    !.files = r.value,
                                    !.names0 = DOMAIN r.value,
                                    !.json0 = r.value[ProjectJson],
                                    !.pending = DOMAIN r.value]
  /\ UNCHANGED zipFrame

(* a stream that computes its bytes when it is read *)
ReadStream_Lazy(stream, live) == live

(* The packager reads a stream.  The bytes of "project.json" were enqueued by
   start(), which the ReadableStream constructor ran inside getFiles; `live`,
   the bytes JSON.stringify(this) would give at the time of reading, plays no
   part. *)
ReadStream(stream, live) == stream

(* the bytes JSON.stringify(this) gives now *)
LiveJson == Encode(Project_toJSON(stage, targets, ids, idCount).value)

(* zipWriter.add(fileName, content) is fulfilled *)
add_done(name) ==
  /\ name \in zip.pending
  /\ zip' = [zip EXCEPT
               !.pending = @ \ {name},
               !.done = @ \cup {name},
               !.archive = Merge(@, name :> (IF name = ProjectJson
                                               THEN ReadStream(zip.files[name], LiveJson)
                                               ELSE zip.files[name]))]
  /\ UNCHANGED <<idVars, zipFrame>>

(* an await of Promise.allSettled: a rejected add rejects nothing *)
OnAddFailure_Settled(pc) == pc

(* await Promise.all([...]): the first add that is rejected rejects zip *)
OnAddFailure(pc) == IF pc = "adding" THEN "rejected" ELSE pc

(* zipWriter.add(fileName, content) is rejected *)
add_fail(name) ==
  /\ name \in zip.pending
  /\ zip' = [zip EXCEPT
               !.pending = @ \ {name},
               !.failed = @ \cup {name},
               !.failures = Append(@, "add"),
               !.pc = OnAddFailure(@),
               !.error = IF OnAddFailure(zip.pc) # zip.pc THEN "add" ELSE @]
  /\ UNCHANGED <<idVars, zipFrame>>

(* a zip that does not await the adds *)
AddsSettled_NoAwait(pending) == TRUE

(* await Promise.all([...]) is over when no add is pending *)
AddsSettled(pending) == pending = {}

(* await zipWriter.close() is reached *)
close_issue ==
  /\ zip.pc = "adding"
  /\ AddsSettled(zip.pending)
  /\ zip' = [zip EXCEPT !.pc = "closing", !.closeIssued = TRUE]
  /\ UNCHANGED <<idVars, zipFrame>>

(* the promise awaited at `from` is fulfilled and zip goes on to `to` *)
Fulfil(from, to) ==
  /\ zip.pc = from
  /\ zip' = [zip EXCEPT !.pc = to,
                        !.closeDone = @ \/ from = "closing",
                        !.dataIssued = @ \/ to = "getting",
                        !.dataDone = @ \/ from = "getting"]
  /\ UNCHANGED <<idVars, zipFrame>>

(* the promise awaited at `from` is rejected: zip rejects with it *)
Reject(from, step) ==
  /\ zip.pc = from
  /\ zip' = [zip EXCEPT !.pc = "rejected", !.error = step,
                        !.failures = Append(@, step)]
  /\ UNCHANGED <<idVars, zipFrame>>

close_done == Fulfil("closing", "terminating")
close_fail == Reject("closing", "close")
terminate_done == Fulfil("terminating", "getting")
terminate_fail == Reject("terminating", "terminateWorkers")
getData_done == Fulfil("getting", "returned")
getData_fail == Reject("getting", "getData")

(***************************************************************************)
(* The state after construction: new Script({shadow, topLevel}) for every  *)
(* Script, new Target(name?) for every Target, new Project().              *)
(***************************************************************************)
NewScript(shadow, topLevel) ==
  [blocks |-> EmptyTable, first |-> null, last |-> null,
   shadow |-> shadow, topLevel |-> topLevel]

InitWith(options) ==
  /\ idCount = 0
  /\ ids = EmptyTable
  /\ heap = EmptyTable
  /\ frags = <<>>
  /\ scripts \in [Scripts -> {NewScript(o[1], o[2]) : o \in options}]
  /\ pushed = [s \in Scripts |-> <<>>]
  /\ tscripts = [t \in Targets |-> EmptyTable]
  /\ nAdd = [t \in Targets |-> 0]
  /\ tname = [t \in Targets |-> NewName(t)]
  /\ costumes = [t \in Targets |-> <<>>]
  /\ sounds = [t \in Targets |-> <<>>]
  /\ layerOrder = [t \in Targets |-> 1]
  /\ stage = "null"
  /\ targets = <<>>
  /\ added = <<>>
  /\ ret = NoRet
  /\ returned = [f \in Files |-> {}]
  /\ projB = NewProject
  /\ zip = NoZip

(* Spec and SpecBlock: every choice of the options of the scripts *)
Init == InitWith(BOOLEAN \X BOOLEAN)

(* SpecProject: new Script() *)
InitProject == InitWith({<<FALSE, FALSE>>})

RECURSIVE SumLen(_, _)
SumLen(f, S) ==
  IF S = {} THEN 0
  ELSE LET x == CHOOSE x \in S : TRUE IN Len(f[x]) + SumLen(f, S \ {x})

RECURSIVE Sum(_, _)
Sum(f, S) ==
  IF S = {} THEN 0
  ELSE LET x == CHOOSE x \in S : TRUE IN f[x] + Sum(f, S \ {x})

(* operations performed so far in a run of Spec *)
OpCount ==
  idCount + SumLen(pushed, Scripts) + Sum(nAdd, Targets) + SumLen(costumes, Targets)

(* the block() calls of Spec: at most the input A, whose value is a Script *)
ChainInputs ==
  {ins \in [1..Len(InputNames) -> InputChoices] :
     ins[1].kind # "string" /\ ins[2].kind = "absent"}

(***************************************************************************)
(* Spec: building chains and adding them to a target.                      *)
(***************************************************************************)
Next ==
  \/ \E opcode \in Opcodes, ins \in ChainInputs :
       /\ OpCount < MaxOps
       /\ idCount < MaxBlocks
       /\ block(opcode, <<>>, ins)
  \/ \E s \in Scripts, i \in 1..Len(frags) :
       /\ OpCount < MaxOps
       /\ Len(pushed[s]) < MaxPushes
       /\ push(s, i)
  \/ \E t \in ScriptTargets, s \in Scripts :
       /\ OpCount < MaxOps
       /\ nAdd[t] < MaxAddScripts
       /\ addScript(t, s)
  \/ \E t \in ScriptTargets, c \in Costumes :
       /\ OpCount < MaxOps
       /\ SumLen(costumes, Targets) < MaxCostumes
       /\ pushCostume(t, c)

Spec == Init /\ [][Next]_vars

(***************************************************************************)
(* SpecBlock: block() with every choice of inputs and fields.              *)
(***************************************************************************)
NextBlock ==
  \/ \E opcode \in Opcodes, fields \in FieldChoices,
        ins \in [1..Len(InputNames) -> InputChoices] :
       /\ idCount < MaxCalls
       /\ block(opcode, fields, ins)
  \/ \E s \in Scripts, i \in 1..Len(frags) :
       /\ Len(pushed[s]) < MaxPushes
       /\ push(s, i)

SpecBlock == Init /\ [][NextBlock]_vars

(***************************************************************************)
(* SpecProject: targets with their assets, added to a project that is      *)
(* serialized.                                                             *)
(***************************************************************************)
ProjectOps == SumLen(costumes, Targets) + SumLen(sounds, Targets) + Len(added)

NextProject ==
  \/ \E t \in Targets, c \in Costumes :
       /\ ProjectOps < MaxProjectOps
       /\ SumLen(costumes, Targets) < MaxAssets
       /\ pushCostume(t, c)
  \/ \E t \in Targets, s \in Sounds :
       /\ ProjectOps < MaxProjectOps
       /\ SumLen(sounds, Targets) < MaxSounds
       /\ pushSound(t, s)
  \/ \E t \in Targets :
       /\ ProjectOps < MaxProjectOps
       /\ Len(added) < MaxAdds
       /\ addTarget(t)
  \/ call_toJSON
  \/ call_getAssets
  \/ call_getFiles

SpecProject == InitProject /\ [][NextProject]_vars

(***************************************************************************)
(* A second Project of the same process.  Its methods are the ones above,  *)
(* on its own stage and targets; idFor and its Map belong to the module.   *)
(***************************************************************************)
addTargetB(t) ==
  /\ projB' = [stage |-> NewStage(projB.stage, t, tname[t]),
               targets |-> NewTargets(projB.targets, t, tname[t])]
  /\ UNCHANGED <<idVars, graphVars, tscripts, nAdd, targetVars, projectVars, ret,
                 returned, zip>>

(* a call on the second project; what it returns goes to its caller *)
CallB(result) ==
  /\ \E r \in {result} : ids' = r.cache /\ idCount' = r.n
  /\ UNCHANGED <<graphVars, tscripts, nAdd, targetVars, projectVars, ret, otherVars>>

callB_toJSON == CallB(Project_toJSON(projB.stage, projB.targets, ids, idCount))
callB_getAssets == CallB(getAssets(projB.stage, projB.targets, ids, idCount))
callB_getFiles == CallB(getFiles(projB.stage, projB.targets, ids, idCount))

(***************************************************************************)
(* SpecTwo: two projects whose targets may share handles.                  *)
(***************************************************************************)
NextTwo ==
  \/ \E t \in TwoTargets, c \in Costumes :
       /\ SumLen(costumes, Targets) + SumLen(sounds, Targets) < MaxTwoAssets
       /\ pushCostume(t, c)
  \/ \E t \in TwoTargets, s \in Sounds :
       /\ SumLen(costumes, Targets) + SumLen(sounds, Targets) < MaxTwoAssets
       /\ pushSound(t, s)
  \/ \E t \in TwoTargets :
       /\ Len(added) < MaxTwoAdds
       /\ addTarget(t)
  \/ \E t \in TwoTargets :
       /\ Len(NewTargets(projB.targets, t, tname[t])) <= MaxTwoSprites
       /\ addTargetB(t)
  \/ call_toJSON
  \/ call_getAssets
  \/ call_getFiles
  \/ callB_toJSON
  \/ callB_getAssets
  \/ callB_getFiles

SpecTwo == InitProject /\ [][NextTwo]_vars

(***************************************************************************)
(* SpecZip: one call of zip, while the caller goes on changing the project *)
(* and its targets.                                                        *)
(***************************************************************************)
NextZip ==
  \/ \E t \in ZipTargets, c \in Costumes :
       /\ SumLen(costumes, Targets) < MaxZipAssets
       /\ pushCostume(t, c)
  \/ \E t \in ZipTargets :
       /\ Len(added) < MaxZipAdds
       /\ addTarget(t)
  \/ zip_start
  \/ \E name \in zip.pending : add_done(name)
  \/ \E name \in zip.pending : add_fail(name)
  \/ close_issue
  \/ close_done
  \/ close_fail
  \/ terminate_done
  \/ terminate_fail
  \/ getData_done
  \/ getData_fail

SpecZip == InitProject /\ [][NextZip]_vars

(***************************************************************************)
(* SpecTarget: targets that are renamed, layered, given costumes, added to *)
(* a project and serialized.                                               *)
(***************************************************************************)
NextTarget ==
  \/ \E t \in TargetPool, c \in Costumes :
       /\ SumLen(costumes, Targets) < MaxTargetCostumes
       /\ pushCostume(t, c)
  \/ \E t \in TargetPool, name \in Names : setName(t, name)
  \/ \E t \in OrderTargets, order \in LayerOrders : setLayerOrder(t, order)
  \/ \E t \in TargetPool :
       /\ Len(added) < MaxTargetAdds
       /\ addTarget(t)
  \/ \E t \in TargetPool : call_Target_toJSON(t)
  \/ call_toJSON

SpecTarget == InitProject /\ [][NextTarget]_vars

(***************************************************************************)
(* SpecIds: idFor called by the caller, between serializations that        *)
(* resolve the handles of the targets' assets.                             *)
(***************************************************************************)
NextIds ==
  \/ \E f \in Files :
       /\ idCount < MaxIds
       /\ call_idFor(f)
  \/ \E t \in IdTargets, c \in Costumes :
       /\ SumLen(costumes, Targets) + SumLen(sounds, Targets) < MaxIdAssets
       /\ pushCostume(t, c)
  \/ \E t \in IdTargets, s \in Sounds :
       /\ SumLen(costumes, Targets) + SumLen(sounds, Targets) < MaxIdAssets
       /\ pushSound(t, s)
  \/ \E t \in IdTargets :
       /\ Len(added) < MaxIdAdds
       /\ addTarget(t)
  \/ call_getAssets
  \/ call_toJSON

SpecIds == InitProject /\ [][NextIds]_vars

(***************************************************************************)
(* SpecAll: chains built and added to a target, targets with assets added  *)
(* to a project, and the project serialized.                               *)
(***************************************************************************)
NextAll ==
  \/ \E opcode \in Opcodes, ins \in ChainInputs :
       /\ Len(frags) < MaxAllBlocks
       /\ block(opcode, <<>>, ins)
  \/ \E s \in Scripts, i \in 1..Len(frags) :
       /\ SumLen(pushed, Scripts) < MaxAllPushes
       /\ push(s, i)
  \/ \E t \in ScriptTargets, s \in Scripts :
       /\ nAdd[t] < MaxAddScripts
       /\ addScript(t, s)
  \/ \E t \in AllPool, c \in Costumes :
       /\ SumLen(costumes, Targets) + SumLen(sounds, Targets) < MaxAllAssets
       /\ pushCostume(t, c)
  \/ \E t \in AllPool, s \in Sounds :
       /\ SumLen(costumes, Targets) + SumLen(sounds, Targets) < MaxAllAssets
       /\ pushSound(t, s)
  \/ \E t \in AllPool :
       /\ Len(added) < MaxAllAdds
       /\ addTarget(t)
  \/ call_toJSON
  \/ call_getAssets

SpecAll == InitProject /\ [][NextAll]_vars

(***************************************************************************)
(* Properties                                                              *)
(***************************************************************************)
(* the node keyed k in the table of script s *)
NodeOf(s, k) == heap[scripts[s].blocks[k]]
Keys(s) == DOMAIN scripts[s].blocks
NonEmpty(s) == Len(pushed[s]) >= 1

(* C1: after one or more pushes on a chain that started empty, `first` is
   the base of the first fragment pushed and `last` the base of the fragment
   pushed most recently (so no later push changes `first`). *)
C1_FirstLast ==
  \A s \in Scripts :
    IF NonEmpty(s)
      THEN /\ scripts[s].first = pushed[s][1]
           /\ scripts[s].last = pushed[s][Len(pushed[s])]
      ELSE scripts[s].first = null /\ scripts[s].last = null

(* two different fragments were pushed on one chain *)
C1_Witness ==
  \E s \in Scripts :
    /\ Len(pushed[s]) = 2
    /\ pushed[s][1] # pushed[s][2]
    /\ scripts[s].first = pushed[s][1]

(* C2: after pushing f1..fn on an empty chain, node f1 has parent = null,
   node fn has next = null, and for every i < n node fi has next = f(i+1)
   and node f(i+1) has parent = fi. *)
C2_Linked ==
  \A s \in Scripts :
    NonEmpty(s) =>
      LET f == pushed[s]
          n == Len(f)
      IN  /\ NodeOf(s, f[1]).parent = null
          /\ NodeOf(s, f[n]).next = null
          /\ \A i \in 1..(n - 1) :
               /\ NodeOf(s, f[i]).next = f[i + 1]
               /\ NodeOf(s, f[i + 1]).parent = f[i]

(* Following `next` from k in the table of s comes to no key twice, leaves
   the table nowhere and ends at the key `last`. *)
RECURSIVE EndsAt(_, _, _, _)
EndsAt(s, k, seen, last) ==
  IF k \in seen \/ k \notin Keys(s) THEN FALSE
  ELSE IF NodeOf(s, k).next = null THEN k = last
  ELSE EndsAt(s, NodeOf(s, k).next, seen \cup {k}, last)

(* C3: in every state reached by pushes, following `next` from `first`
   visits no node twice and ends at `last`, and no node has two
   predecessors. *)
C3_NextIsList ==
  \A s \in Scripts :
    NonEmpty(s) =>
      /\ EndsAt(s, scripts[s].first, {}, scripts[s].last)
      /\ \A j, k \in Keys(s) :
           (NodeOf(s, j).next # null /\ NodeOf(s, j).next = NodeOf(s, k).next)
             => j = k

(* C4: every node in the table of a chain created with shadow = true has
   shadow = true, the nodes of nested input chains included. *)
C4_ShadowAll ==
  \A s \in Scripts :
    scripts[s].shadow => \A k \in Keys(s) : NodeOf(s, k).shadow

(* a shadow chain holds a node that came in through a nested chain created
   with shadow = false, where the node has shadow = false *)
C4_Witness ==
  \E s, c \in Scripts :
    /\ scripts[s].shadow /\ ~scripts[c].shadow
    /\ \E k \in Keys(s) \cap Keys(c) :
         /\ \A i \in 1..Len(pushed[s]) : pushed[s][i] # k
         /\ ~NodeOf(c, k).shadow
         /\ NodeOf(s, k).shadow

(* C5: a chain created with topLevel = true has, after one or more pushes,
   exactly one node with topLevel = true, the one keyed `first`; the node
   keyed `first` of a chain created with topLevel = false has
   topLevel = false. *)
C5_OneTopLevel ==
  \A s \in Scripts :
    NonEmpty(s) =>
      IF scripts[s].topLevel
        THEN {k \in Keys(s) : NodeOf(s, k).topLevel} = {scripts[s].first}
        ELSE ~NodeOf(s, scripts[s].first).topLevel

(* the fragment a block() call has just returned: ret holds the call's
   arguments until the next change *)
BlockReturned == ret.op = "block" /\ ret.thrown = "none"
LastFrag == frags[Len(frags)]
BaseOf(f) == heap[f.blocks[f.base]]
GivenScript(input) == scripts[input.script]
IsChain(input) == input.kind = "script" /\ GivenScript(input).first # null
IsEmptyChain(input) == input.kind = "script" /\ GivenScript(input).first = null

(* the slot the claims expect for an input that is a string or a non-empty
   chain *)
SlotAsClaimed(node, name, input) ==
  /\ input.kind = "string" =>
       /\ name \in DOMAIN node.inputs
       /\ node.inputs[name] = <<1, <<Literal.type, Literal.value>>>>
  /\ (IsChain(input) /\ ~input.hasFallback) =>
       /\ name \in DOMAIN node.inputs
       /\ node.inputs[name] = <<2, GivenScript(input).first>>
  /\ (IsChain(input) /\ input.hasFallback) =>
       /\ name \in DOMAIN node.inputs
       /\ node.inputs[name] =
            <<3, GivenScript(input).first, <<Fallback.type, Fallback.value>>>>

(* C6: block(opcode, {inputs, fields}) returns a fragment whose base node
   has parent = null, next = null, shadow = false, topLevel = false and the
   fields as [value, null]; a literal input gives [1, [type, value]], a
   non-empty chain [2, first] or, with a fallback, [3, first, [type, value]];
   the keys of the fragment are the base plus the keys of every non-empty
   input chain. *)
C6_BlockEncoding ==
  BlockReturned =>
    LET f == LastFrag
        node == BaseOf(f)
        args == ret.value
        chains == {i \in 1..Len(InputNames) : IsChain(args.inputs[i])}
    IN  /\ node.opcode = args.opcode
        /\ node.parent = null /\ node.next = null
        /\ node.shadow = FALSE /\ node.topLevel = FALSE
        /\ DOMAIN node.fields = DOMAIN args.fields
        /\ \A n \in DOMAIN args.fields : node.fields[n] = <<args.fields[n], null>>
        /\ \A i \in 1..Len(InputNames) :
             SlotAsClaimed(node, InputNames[i], args.inputs[i])
        /\ DOMAIN f.blocks =
             {f.base} \cup UNION {Keys(args.inputs[i].script) : i \in chains}

(* block() returned a fragment with a field, a chain with a fallback as
   input A and another, different chain without fallback as input B *)
C6_Witness ==
  /\ BlockReturned
  /\ DOMAIN ret.value.fields # {}
  /\ IsChain(ret.value.inputs[1]) /\ ret.value.inputs[1].hasFallback
  /\ IsChain(ret.value.inputs[2]) /\ ~ret.value.inputs[2].hasFallback
  /\ ret.value.inputs[1].script # ret.value.inputs[2].script
  /\ BaseOf(LastFrag).inputs["A"][1] = 3
  /\ Cardinality(DOMAIN LastFrag.blocks) >= 2

(* C7: an input whose value is an empty chain is absent from the inputs of
   the base node and adds no node, with or without a fallback; the other
   inputs of the call are encoded as usual. *)
C7_EmptyChainOmitted ==
  BlockReturned =>
    LET f == LastFrag
        node == BaseOf(f)
        args == ret.value
    IN  \A i \in 1..Len(InputNames) :
          IsEmptyChain(args.inputs[i]) =>
            /\ InputNames[i] \notin DOMAIN node.inputs
            /\ \A j \in (1..Len(InputNames)) \ {i} :
                 /\ SlotAsClaimed(node, InputNames[j], args.inputs[j])
                 /\ DOMAIN f.blocks =
                      {f.base} \cup (IF IsChain(args.inputs[j])
                                       THEN Keys(args.inputs[j].script)
                                       ELSE {})

(* block() returned for an empty chain with a fallback as input A and a
   literal as input B *)
C7_Witness ==
  /\ BlockReturned
  /\ IsEmptyChain(ret.value.inputs[1]) /\ ret.value.inputs[1].hasFallback
  /\ ret.value.inputs[2].kind = "string"
  /\ DOMAIN BaseOf(LastFrag).inputs = {"B"}

(* the identifiers a node refers to *)
Refs(node) ==
  ({node.parent, node.next} \ {null})
  \cup {node.inputs[m][2] : m \in {m \in DOMAIN node.inputs : node.inputs[m][1] \in {2, 3}}}

(* C8: in the blocks table Target.toJSON emits, every identifier that is a
   parent, a next or the node of a kind-2 or kind-3 input is a key of the
   table. *)
C8_RefsResolve ==
  \A t \in Targets :
    LET r == Target_toJSON(TargetObj(t), heap, ids, idCount)
    IN  r.thrown = "none" =>
          \A k \in DOMAIN r.value.blocks :
            Refs(r.value.blocks[k]) \subseteq DOMAIN r.value.blocks

(* what the addTarget calls so far were given *)
IsStageTarget(t) == isStage(tname[t])
StageAdded == \E i \in 1..Len(added) : IsStageTarget(added[i])
LastStageAdded ==
  added[CHOOSE i \in 1..Len(added) :
          /\ IsStageTarget(added[i])
          /\ \A j \in (i + 1)..Len(added) : ~IsStageTarget(added[j])]
IsSprite(t) == ~IsStageTarget(t)
SpritesAdded == SelectSeq(added, IsSprite)

(* C9: toJSON().targets is the stage added last, followed by every
   non-stage target in the order it was added, as often as it was added;
   the stage is at index 0. *)
C9_TargetsOrder ==
  (ret.op = "toJSON" /\ ret.thrown = "none") =>
    LET expected == <<LastStageAdded>> \o SpritesAdded
        got == ret.value.targets
    IN  /\ StageAdded
        /\ Len(got) = Len(expected)
        /\ \A i \in 1..Len(expected) :
             got[i] = Target_toJSON(TargetObj(expected[i]), heap, ids, idCount).value
        /\ got[1].isStage
        /\ \A i \in 2..Len(got) : ~got[i].isStage

(* toJSON returned after a stage was replaced by a different one and a sprite
   was added *)
C9_Witness ==
  /\ ret.op = "toJSON" /\ ret.thrown = "none"
  /\ \E i, j \in 1..Len(added) :
       i < j /\ IsStageTarget(added[i]) /\ IsStageTarget(added[j])
       /\ added[i] # added[j] /\ costumes[added[i]] # costumes[added[j]]
  /\ Len(ret.value.targets) = 2

(* C10: with no stage added, toJSON, getAssets and getFiles each raise
   MissingStage; once a stage has been added none of them does. *)
C10_MissingStage ==
  ret.op \in {"toJSON", "getAssets", "getFiles"} =>
    ((ret.thrown = "MissingStage") <=> ~StageAdded)

(* getFiles raised MissingStage on a project that two sprites were added to *)
C10_Witness ==
  /\ ret.op = "getFiles"
  /\ ret.thrown = "MissingStage"
  /\ Len(added) >= 2

(* C11: Target.toJSON raises MissingCostume exactly when the target has no
   costume; otherwise it returns one costume entry per costume of the target,
   in the order they were pushed, with bitmapResolution 1 for "svg" and 2
   for every other type. *)
C11_Costumes ==
  ret.op = "Target.toJSON" =>
    LET cs == costumes[ret.target]
    IN  /\ (ret.thrown = "MissingCostume") <=> (Len(cs) = 0)
        /\ Len(cs) > 0 =>
             /\ ret.thrown = "none"
             /\ Len(ret.value.costumes) = Len(cs)
             /\ \A i \in 1..Len(cs) :
                  /\ ret.value.costumes[i].name = cs[i].name
                  /\ ret.value.costumes[i].dataFormat = cs[i].type
                  /\ ret.value.costumes[i].bitmapResolution =
                       (IF cs[i].type = "svg" THEN 1 ELSE 2)

(* toJSON returned for a target with a png costume followed by an svg one *)
C11_Witness ==
  /\ ret.op = "Target.toJSON" /\ ret.thrown = "none"
  /\ Len(costumes[ret.target]) = 2
  /\ costumes[ret.target][1].type = "png"
  /\ costumes[ret.target][2].type = "svg"

(* C12: Project.toJSON emits the stage first with isStage true and layerOrder
   0 whatever its layerOrder was set to, and every sprite with the layerOrder
   set on it; with no sprite added, targets has length 1. *)
C12_LayerOrder ==
  (ret.op = "toJSON" /\ ret.thrown = "none") =>
    LET got == ret.value.targets
    IN  /\ Len(got) = 1 + Len(targets)
        /\ got[1].isStage
        /\ got[1].layerOrder = 0
        /\ \A i \in 1..Len(targets) :
             got[i + 1].layerOrder = layerOrder[targets[i]]

(* toJSON returned for a project of one stage, whose layerOrder was set to 7
   and which has one costume, and no sprite *)
C12_Witness ==
  /\ ret.op = "toJSON" /\ ret.thrown = "none"
  /\ targets = <<>>
  /\ Len(costumes[stage]) = 1
  /\ layerOrder[stage] = 7
  /\ Len(ret.value.targets) = 1

(* C16: setName raises InvalidMutation exactly when the target is a stage,
   and then leaves the name as it was; on every other target it sets the name
   to its argument. *)
C16_SetName ==
  ret.op = "setName" =>
    LET t == ret.value.target
    IN  /\ (ret.thrown = "InvalidMutation") <=> isStage(ret.value.before)
        /\ tname[t] = (IF isStage(ret.value.before)
                         THEN ret.value.before
                         ELSE <<ret.value.name>>)

(* C13: every call of idFor on a handle returns the id its first call on
   that handle returned, two different handles never get the same id, and the
   ids in the keys getAssets returns are the ids idFor returns. *)
C13_IdStable ==
  /\ \A f \in Files : Cardinality(returned[f]) <= 1
  /\ \A f, g \in Files : f # g => returned[f] \cap returned[g] = {}
  /\ (ret.op = "getAssets" /\ ret.thrown = "none") =>
       \A key \in DOMAIN ret.value : returned[ret.value[key]] \subseteq {key[1]}

(* idFor was called again on a handle after both handles got an id *)
C13_Witness ==
  /\ ret.op = "idFor"
  /\ ret.value.before # {}
  /\ \A f \in Files : returned[f] # {}

(* the handles of the assets of the stage and the sprites of the project *)
HandlesUsed ==
  {FlatAssets(AllTargets(stage, targets), 1)[i].file :
     i \in 1..Len(FlatAssets(AllTargets(stage, targets), 1))}

(* C14: getAssets returns exactly one entry per handle used by a costume or a
   sound of the stage and the sprites, whatever file types the uses declare. *)
C14_OnePerHandle ==
  (ret.op = "getAssets" /\ ret.thrown = "none") =>
    /\ \A f \in HandlesUsed :
         Cardinality({key \in DOMAIN ret.value : ret.value[key] = f}) = 1
    /\ Cardinality(DOMAIN ret.value) = Cardinality(HandlesUsed)

(* a target of the project, the stage or a sprite, has no costume *)
SomeTargetBare ==
  \E i \in 1..Len(AllTargets(stage, targets)) :
    Len(costumes[AllTargets(stage, targets)[i]]) = 0

(* C15: when the stage or a sprite has no costume, toJSON and getFiles raise,
   return nothing, and leave the stage, the sprites and every field of every
   target as they were. *)
C15_AllOrNothing ==
  [][(ret'.op \in {"toJSON", "getFiles"} /\ ~NoStage(stage) /\ SomeTargetBare) =>
       /\ ret'.thrown = "MissingCostume"
       /\ ret'.value = <<>>
       /\ UNCHANGED <<stage, targets, targetVars, tscripts>>]_vars

(* getFiles raised on a project whose stage has a costume and whose sprite
   has none *)
C15_Witness ==
  /\ ret.op = "getFiles"
  /\ ret.thrown = "MissingCostume"
  /\ ~NoStage(stage)
  /\ Len(costumes[stage]) > 0
  /\ Len(targets) > 0

(* A result with every id replaced by the handles that the Map holds the id
   for; the tokens themselves are random. *)
HandlesOf(id, cache) == {f \in DOMAIN cache : cache[f] = id}
CanonAsset(a, cache) ==
  [a EXCEPT !.assetId = HandlesOf(@, cache),
            !.md5ext = <<HandlesOf(@[1], cache), @[2]>>]
CanonTarget(tj, cache) ==
  [tj EXCEPT !.costumes = [i \in DOMAIN @ |-> CanonAsset(@[i], cache)],
             !.sounds = [i \in DOMAIN @ |-> CanonAsset(@[i], cache)]]
CanonJSON(v, cache) ==
  [v EXCEPT !.targets = [i \in DOMAIN @ |-> CanonTarget(@[i], cache)]]
CanonAssets(v, cache) ==
  {<<HandlesOf(key[1], cache), key[2], v[key]>> : key \in (DOMAIN v) \ {ProjectJson}}
Canon(op, v, cache) ==
  IF op = "toJSON" THEN CanonJSON(v, cache)
  ELSE IF op = "getAssets" THEN CanonAssets(v, cache)
  ELSE <<CanonAssets(v, cache), CanonJSON(v[ProjectJson].utf8.text, cache)>>

(* the call op on the first project with the Map and the generator as given *)
ResultOf(op, cache, n) ==
  IF op = "toJSON" THEN Project_toJSON(stage, targets, cache, n)
  ELSE IF op = "getAssets" THEN getAssets(stage, targets, cache, n)
  ELSE getFiles(stage, targets, cache, n)

(* C17: what toJSON, getAssets and getFiles of one project return does not
   depend on the operations performed on another project: the call returns
   the same after any operations on the other project, and, up to the choice
   of the random tokens, it returns what it returns in a process where no
   other project has resolved a handle. *)
C17_Independent ==
  ret.op \in {"toJSON", "getAssets", "getFiles"} =>
    LET now == ResultOf(ret.op, ids, idCount)
        alone == ResultOf(ret.op, EmptyTable, 0)
    IN  /\ now.thrown = ret.thrown
        /\ now.value = ret.value
        /\ alone.thrown = ret.thrown
        /\ ret.thrown = "none" =>
             Canon(ret.op, ret.value, ids) = Canon(ret.op, alone.value, alone.cache)

(* getAssets returned on the first project after the second project, whose
   stage uses a handle that the first project uses too and one it does not use,
   was serialized *)
C17_Witness ==
  /\ ret.op = "getAssets" /\ ret.thrown = "none"
  /\ ~NoStage(projB.stage)
  /\ projB.stage # stage
  /\ \E i \in 1..Len(costumes[projB.stage]) :
       costumes[projB.stage][i].file \in HandlesUsed
  /\ \E i \in 1..Len(costumes[projB.stage]) :
       /\ costumes[projB.stage][i].file \notin HandlesUsed
       /\ costumes[projB.stage][i].file \in DOMAIN ids

(* C18: the entries zip writes are the files getFiles returned when zip was
   called, and the project.json written holds the serialization as of that
   call, whatever was changed while zip awaited the packager. *)
C18_FilesFixed ==
  /\ DOMAIN zip.archive \subseteq zip.names0
  /\ zip.pending \cup zip.done \subseteq zip.names0
  /\ ProjectJson \in DOMAIN zip.archive => zip.archive[ProjectJson] = zip.json0
  /\ zip.pc = "returned" => DOMAIN zip.archive = zip.names0

(* zip returned after a target was added or given a costume during the
   packaging, so that the project serializes differently now *)
C18_Witness ==
  /\ zip.pc = "returned"
  /\ LiveJson # zip.json0

(* C19: close is called only after every add is fulfilled, getData only after
   close is fulfilled, and zip returns only after all of them. *)
C19_Ordered ==
  /\ zip.closeIssued => (zip.pending = {} /\ zip.done = zip.names0)
  /\ zip.dataIssued => zip.closeDone
  /\ zip.pc = "returned" =>
       (zip.done = zip.names0 /\ zip.closeDone /\ zip.dataDone)

(* zip returned the archive of a project with two asset files *)
C19_Witness ==
  /\ zip.pc = "returned"
  /\ Cardinality(zip.names0) = 3

(* C20: when a step of the packaging fails, or getFiles throws, zip is
   rejected with the first failure and returns no stream; when the project
   has no stage nothing is handed to the packager. *)
C20_Rejects ==
  /\ zip.failures # <<>> => (zip.pc = "rejected" /\ zip.error = zip.failures[1])
  /\ zip.pc = "rejected" => zip.failures # <<>>
  /\ zip.error = "MissingStage" =>
       (zip.names0 = {} /\ zip.pending = {} /\ zip.archive = EmptyTable)

(* an add was rejected after another add had been fulfilled *)
C20_Witness ==
  /\ zip.pc = "rejected"
  /\ zip.done # {}
  /\ zip.failed # {}
  /\ zip.error = "add"

(* the call of block() recorded in ret has a string input without a type *)
StringWithoutType(call) ==
  \E i \in 1..Len(InputNames) :
    call.value.inputs[i].kind = "string" /\ ~call.value.inputs[i].hasType

(* C22: block() raises InvalidInput exactly when one of its inputs has a
   string value and no type; it then returns no fragment and changes no
   node, and a call without such an input, chains included, returns a
   fragment. *)
C22_InvalidInput ==
  [][ret'.op = "block" =>
       /\ (ret'.thrown = "InvalidInput") <=> StringWithoutType(ret')
       /\ StringWithoutType(ret') => (frags' = frags /\ heap' = heap)
       /\ ~StringWithoutType(ret') =>
            (ret'.thrown = "none" /\ Len(frags') = Len(frags) + 1)]_vars

(* block() raised InvalidInput for a non-empty chain as input A and a string
   without type as input B *)
C22_Witness ==
  /\ ret.op = "block" /\ ret.thrown = "InvalidInput"
  /\ IsChain(ret.value.inputs[1])
  /\ ret.value.inputs[2].kind = "string" /\ ~ret.value.inputs[2].hasType
  /\ Len(frags) = 1

(* C23: the keys of what getFiles returns are the keys getAssets returns
   plus "project.json", every asset key holds the handle getAssets gives for
   it, and project.json holds the encoded result of toJSON. *)
C23_FilesAreAssetsPlusJson ==
  (ret.op = "getFiles" /\ ret.thrown = "none") =>
    LET a == getAssets(stage, targets, ids, idCount)
        j == Project_toJSON(stage, targets, ids, idCount)
    IN  /\ a.thrown = "none" /\ j.thrown = "none"
        /\ ProjectJson \notin DOMAIN a.value
        /\ DOMAIN ret.value = (DOMAIN a.value) \cup {ProjectJson}
        /\ \A key \in DOMAIN a.value : ret.value[key] = a.value[key]
        /\ ret.value[ProjectJson] = Encode(j.value)

(* getFiles returned for a project with a sprite and two asset files *)
C23_Witness ==
  /\ ret.op = "getFiles" /\ ret.thrown = "none"
  /\ Len(targets) >= 1
  /\ Cardinality(DOMAIN ret.value) = 3

(* the nodes that node refers to in an input of kind 2 or 3 *)
NestedFirsts(node) ==
  {node.inputs[m][2] : m \in {m \in DOMAIN node.inputs : node.inputs[m][1] \in {2, 3}}}

(* C24: in the table of a chain, the node that an input of kind 2 or 3 of a
   node B refers to, the first node of the chain given as that input, has
   parent = B. *)
C24_NestedParent ==
  \A s \in Scripts :
    \A b \in Keys(s) :
      \A k \in NestedFirsts(NodeOf(s, b)) \cap Keys(s) :
        NodeOf(s, k).parent = b

(* the fragment f was pushed on a chain whose pushes are listed in bases *)
PushedOn(f, bases) == \E j \in 1..Len(bases) : bases[j] = f.base

(* C25: a push on a chain changes no fragment that has been pushed on that
   chain, the fragment just pushed included: its table and every node of it
   are as before, and its base node has parent = null, next = null,
   topLevel = false and shadow = false, as block() made it. *)
C25_FragmentUnchanged ==
  [][\A s \in Scripts :
       pushed'[s] # pushed[s] =>
         \A i \in 1..Len(frags) :
           PushedOn(frags[i], pushed'[s]) =>
             /\ frags'[i] = frags[i]
             /\ \A k \in DOMAIN frags[i].blocks :
                  heap'[frags[i].blocks[k]] = heap[frags[i].blocks[k]]
             /\ heap'[FragAddr(frags[i].base)].parent = null
             /\ heap'[FragAddr(frags[i].base)].next = null
             /\ heap'[FragAddr(frags[i].base)].topLevel = FALSE
             /\ heap'[FragAddr(frags[i].base)].shadow = FALSE]_vars

(* two fragments were pushed on a chain created with shadow and topLevel:
   the chain's node of the first has shadow, topLevel and a next, the
   chain's node of the second has a parent, and the fragments have none of
   them *)
C25_Witness ==
  \E s \in Scripts :
    /\ scripts[s].shadow /\ scripts[s].topLevel
    /\ Len(pushed[s]) = 2
    /\ pushed[s][1] # pushed[s][2]
    /\ NodeOf(s, pushed[s][1]).shadow
    /\ NodeOf(s, pushed[s][1]).topLevel
    /\ NodeOf(s, pushed[s][1]).next = pushed[s][2]
    /\ NodeOf(s, pushed[s][2]).parent = pushed[s][1]
    /\ \A i \in 1..Len(frags) :
         PushedOn(frags[i], pushed[s]) =>
           /\ ~BaseOf(frags[i]).shadow /\ ~BaseOf(frags[i]).topLevel
           /\ BaseOf(frags[i]).next = null /\ BaseOf(frags[i]).parent = null

(* the fragment f has an input whose value was a chain created with
   shadow = true: an input of its base node refers to a node with shadow *)
HasShadowInput(f) ==
  \E k \in NestedFirsts(BaseOf(f)) \cap DOMAIN f.blocks : heap[f.blocks[k]].shadow

(* C26: when a fragment with a shadow chain as input is pushed on a chain
   created with shadow = false, the chain's nodes of the nested chain have
   shadow = true and the parent and next they have in the fragment, the
   chain's node of the base has shadow = false, and the one next link the
   push writes is the link from the former last node to the base. *)
C26_NestedKept ==
  [][\A s \in Scripts, i \in 1..Len(frags) :
       (/\ pushed'[s] = Append(pushed[s], frags[i].base)
        /\ ~scripts[s].shadow
        /\ HasShadowInput(frags[i])) =>
         LET f == frags[i]
             now == [k \in DOMAIN scripts'[s].blocks |-> heap'[scripts'[s].blocks[k]]]
         IN  /\ \A k \in (DOMAIN f.blocks) \ {f.base} :
                  heap[f.blocks[k]].shadow =>
                    /\ now[k].shadow
                    /\ now[k].parent = heap[f.blocks[k]].parent
                    /\ now[k].next = heap[f.blocks[k]].next
             /\ ~now[f.base].shadow
             /\ scripts'[s].last = f.base
             /\ \A k \in Keys(s) \ DOMAIN f.blocks :
                  now[k].next = IF k = scripts[s].last THEN f.base ELSE NodeOf(s, k).next]_vars

(* every node of the table of target t is a node object of script s: what
   addScript(s) spread into the target *)
AddedFrom(t, s) ==
  /\ nAdd[t] >= 1
  /\ \A k \in DOMAIN tscripts[t] : tscripts[t][k][1] = s

(* the links and flags of a node *)
Links(node) == <<node.parent, node.next, node.shadow, node.topLevel>>

(* C27: after addScript(s) on a target, a push on s changes nothing in the
   blocks that the target's toJSON emits: the keys are the same and every
   node has the parent, next, shadow and topLevel it had. *)
C27_Snapshot ==
  [][\A s \in Scripts, t \in Targets :
       (/\ pushed'[s] # pushed[s]
        /\ AddedFrom(t, s)
        /\ Len(costumes[t]) > 0) =>
         LET before == Target_toJSON(TargetObj(t), heap, ids, idCount).value.blocks
             after == Target_toJSON(TargetObj(t)', heap', ids', idCount').value.blocks
         IN  /\ DOMAIN after = DOMAIN before
             /\ \A k \in DOMAIN before : Links(after[k]) = Links(before[k])]_vars

(* C28: whatever setName calls were made, failing ones included, every
   target is a stage exactly if it was created as one. *)
C28_StageFixed ==
  \A t \in Targets : isStage(tname[t]) <=> isStage(NewName(t))

(* setName failed on a sprite that an earlier setName had given the empty
   name *)
C28_Witness ==
  /\ ret.op = "setName" /\ ret.thrown = "InvalidMutation"
  /\ ret.value.target = "sprite1"
  /\ tname["sprite1"] = <<"">>
  /\ ~isStage(tname["sprite1"])

(* the file names of the assets in what toJSON returned *)
Md5exts(json) ==
  UNION {{json.targets[i].costumes[j].md5ext : j \in DOMAIN json.targets[i].costumes}
         \cup {json.targets[i].sounds[j].md5ext : j \in DOMAIN json.targets[i].sounds} :
         i \in DOMAIN json.targets}

(* C29: a call of toJSON or getAssets leaves the stage, the sprites and the
   costumes, sounds and blocks of every target as they were, the same call
   made again, with the Map of idFor as the first call left it, returns or
   raises the same, and the keys of getAssets are the md5ext of the assets
   toJSON returns. *)
C29_ReadOnly ==
  [][ret'.op \in {"toJSON", "getAssets"} =>
       /\ UNCHANGED <<stage, targets, costumes, sounds, tscripts>>
       /\ \A t \in Targets : BlocksJSON(tscripts[t], heap)' = BlocksJSON(tscripts[t], heap)
       /\ ResultOf(ret'.op, ids', idCount').thrown = ret'.thrown
       /\ ResultOf(ret'.op, ids', idCount').value = ret'.value
       /\ (ret'.op = "toJSON" /\ ret'.thrown = "none") =>
            DOMAIN getAssets(stage, targets, ids', idCount').value = Md5exts(ret'.value)]_vars

(* toJSON returned for a stage and a sprite with blocks that use two handles
   between them *)
C29_Witness ==
  /\ ret.op = "toJSON" /\ ret.thrown = "none"
  /\ Len(ret.value.targets) = 2
  /\ DOMAIN ret.value.targets[2].blocks # {}
  /\ Cardinality(DOMAIN ids) = 2

====
